---- MODULE Spec2Model ----
(***************************************************************************)
(* Model of the comic generator: the App component's run handler           *)
(* (handleComicGeneration), the scene parser (generateScenePrompts) and    *)
(* the retrying image caller (generateImageForPrompt).                     *)
(***************************************************************************)
EXTENDS Integers, Sequences, FiniteSets, TLC

(***************************************************************************)
(* Bounds of the model.                                                    *)
(***************************************************************************)
MaxScenes == 2
MaxDialogues == 2
MaxDim == 12

(***************************************************************************)
(* Program constants.                                                      *)
(***************************************************************************)
maxRetries == 2
baseDelayMs == 2000

ApiKeys == {"", "key"}
Images == {"imgA", "imgB"}
Jitters == {0, 999}

\* The marker groups the catch block of generateImageForPrompt looks for in
\* an error message: "auth" (api key not valid | permission denied), "rate"
\* (429 | RESOURCE_EXHAUSTED | RATE_LIMIT_EXCEEDED), "server" (status: 500 |
\* INTERNAL), "safety" (blocked by safety filters | safety policy).
Markers == {"auth", "rate", "server", "safety"}

\* What one API attempt can end with: an image, or an error whose message
\* carries any combination of the markers.
Outcomes ==
  [kind : {"image"}, img : Images, marks : {{}}]
    \cup [kind : {"error"}, img : {"none"}, marks : SUBSET Markers]

\* The outcomes drawn while a whole run is explored.
RunOutcomes ==
  [kind : {"image"}, img : Images, marks : {{}}]
    \cup [kind : {"error"}, img : {"none"},
          marks : {{}, {"auth"}, {"rate"}, {"safety"}}]

\* What a stored image prompt can look like to JSON.parse: plain text, or an
\* object whose characters mapping holds a null entry.
PromptShapes == {"plain", "nullchar"}

\* A string is kept as the sequence of its pieces, "" as <<>>.
NullCaption == [isNull |-> TRUE, text |-> <<>>]
Caption(text) == [isNull |-> FALSE, text |-> text]

\* What the upstream caption can be: null, "" or a text.
UpstreamCaptions == {NullCaption, Caption(<<>>), Caption(<<"cap">>)}

\* What one upstream dialogue entry can be: a string ("" included), a
\* {character, line} pair (its line possibly ""), or null.
DialogueEntries ==
  [type : {"string"}, text : {<<>>, <<"hi">>}, character : {<<>>}, line : {<<>>}]
    \cup [type : {"pair"}, text : {<<>>}, character : {<<"Zara">>},
          line : {<<>>, <<"hi">>}]
    \cup [type : {"null"}, text : {<<>>}, character : {<<>>}, line : {<<>>}]

SeqsUpTo(S, n) == UNION {[1..k -> S] : k \in 0..n}

\* The caption and dialogues of the scenes drawn while a whole run is
\* explored.
RunCaption == Caption(<<"cap">>)
RunDialogues ==
  <<[type |-> "pair", text |-> <<>>, character |-> <<"Zara">>, line |-> <<"hi">>]>>

UpstreamScenes ==
  [scene_number : 0..MaxScenes, image_prompt : {"absent"} \cup PromptShapes,
   caption : {RunCaption}, dialoguesIsArray : {TRUE}, dialogues : {RunDialogues}]

\* The scenes drawn for the parser on its own: every caption, and dialogues
\* that are absent or a list of up to MaxDialogues entries.
ParseScenes ==
  [scene_number : {0}, image_prompt : {"plain"},
   caption : UpstreamCaptions, dialoguesIsArray : {TRUE},
   dialogues : SeqsUpTo(DialogueEntries, MaxDialogues)]
    \cup [scene_number : {0}, image_prompt : {"plain"},
          caption : UpstreamCaptions, dialoguesIsArray : {FALSE},
          dialogues : {<<>>}]

\* What the text call can end with: a thrown API error, a policy block, an
\* empty text, text that does not parse, or a parsed object.
SceneResponses ==
  [kind : {"apierror", "blocked", "notext", "badjson"},
   scenes : {<<>>}, scenesIsArray : {FALSE}, canon : {"absent"}]
    \cup [kind : {"parsed"}, scenes : SeqsUpTo(UpstreamScenes, MaxScenes),
          scenesIsArray : {TRUE}, canon : {"map", "list"}]
    \cup [kind : {"parsed"}, scenes : {<<>>},
          scenesIsArray : {FALSE}, canon : {"map"}]
    \cup [kind : {"parsed"}, scenes : {<<>>},
          scenesIsArray : {TRUE}, canon : {"absent", "scalar"}]

\* The responses drawn while a whole run is explored: the parsed ones carry
\* a canon that is a mapping and scenes whose image_prompt is present.
RunSceneResponses ==
  {resp \in SceneResponses :
     resp.kind = "parsed" /\ resp.scenesIsArray /\ ~(resp.canon \in {"absent", "scalar"})
       => /\ resp.canon = "map"
          /\ \A p \in 1..Len(resp.scenes) : resp.scenes[p].image_prompt # "absent"}

\* The responses drawn for the parser on its own: lists of one or two
\* scenes under a canon that is a mapping, and every shape of the scene list
\* and of the canon.
ParseResponses ==
  [kind : {"parsed"}, scenes : UNION {[1..k -> ParseScenes] : k \in {1, 2}},
   scenesIsArray : {TRUE}, canon : {"map"}]
    \cup [kind : {"parsed"}, scenes : {<<>>} \cup [{1} -> ParseScenes],
          scenesIsArray : {TRUE, FALSE}, canon : {"absent", "scalar", "list", "map"}]
    \cup [kind : {"apierror", "blocked", "notext", "badjson"},
          scenes : {<<>>}, scenesIsArray : {FALSE}, canon : {"absent"}]

NoResponse ==
  [kind |-> "none", scenes |-> <<>>, scenesIsArray |-> FALSE, canon |-> "absent"]

CaptionPlacements == {"IN_UI", "IN_IMAGE"}

\* The options of a run (the form's defaults for the caption settings and
\* the aspect ratio).
Options ==
  [numPages : 1..MaxScenes, includeCaptions : {TRUE}, captionPlacement : {"IN_UI"},
   aspectRatio : {"SQUARE"}]

ParseOptions ==
  [numPages : {2}, includeCaptions : BOOLEAN, captionPlacement : CaptionPlacements,
   aspectRatio : {"SQUARE"}]

\* The options of a run explored with exports or invocations: as many pages as
\* scenes can come back, a square or a landscape ratio.
AppOptions ==
  [numPages : {MaxScenes}, includeCaptions : {TRUE}, captionPlacement : {"IN_UI"},
   aspectRatio : {"SQUARE", "LANDSCAPE"}]

DefaultOptions ==
  [numPages |-> 1, includeCaptions |-> TRUE, captionPlacement |-> "IN_UI",
   aspectRatio |-> "SQUARE"]

NoParse == [kind |-> "pending", ok |-> FALSE, panels |-> <<>>]

NoError == <<>>
NoProgress ==
  [step |-> "none", num |-> 0, den |-> 1, currentPanel |-> 0, totalPanels |-> 0]
\* No earlier invocation goes on.
NoAbandoned ==
  [live |-> FALSE, scenePrompts |-> <<>>, i |-> 0, calls |-> <<>>,
   cError |-> FALSE, cPanelsEmpty |-> TRUE]
NoResult ==
  [kind |-> "pending", img |-> "none", attempt |-> 0, total |-> 0, model |-> FALSE]

FIXED_IMAGE_SEED == 42

AspectRatios == {"SQUARE", "PORTRAIT", "LANDSCAPE"}
ImageModels == {"IMAGEN_3", "GEMINI_2_FLASH_IMG"}

\* One entry of a characters mapping: the character's name and its sheet,
\* or a null in the sheet's place.  A field that is absent is kept as the
\* empty text: the code only tests these fields for truthiness.
Sheet(name, ivap, description) ==
  [name |-> name, isNull |-> FALSE, IVAP |-> ivap,
   appearance |-> <<"hair of">> \o name, attire |-> <<"coat of">> \o name,
   description |-> description]
NullSheet(name) ==
  [name |-> name, isNull |-> TRUE, IVAP |-> <<>>,
   appearance |-> <<>>, attire |-> <<>>, description |-> <<>>]

\* The characterCanon of a response: the sheets the text model is asked
\* for (IVAP, appearance, attire), in key order.
CharacterCanons ==
  { <<Sheet(<<"Zara">>, <<"ZARA_BLUE">>, <<>>)>>,
    <<Sheet(<<"Zara">>, <<"ZARA_BLUE">>, <<>>), Sheet(<<"Guard">>, <<>>, <<>>)>> }

\* A string as JSON.parse sees it: text that is not JSON, or the JSON
\* text of a scalar, of null, of a list or of an object with its
\* characters, scene and mood fields.
PromptText(kind, raw) ==
  [kind |-> kind, raw |-> raw, characters |-> <<>>, scene |-> <<>>, mood |-> <<>>]
PromptObject(raw, characters, scene, mood) ==
  [kind |-> "object", raw |-> raw, characters |-> characters,
   scene |-> scene, mood |-> mood]

RECURSIVE CanonText(_)
CanonText(canon) ==
  IF canon = <<>> THEN <<>>
  ELSE Head(canon).IVAP \o Head(canon).appearance \o Head(canon).attire
         \o CanonText(Tail(canon))

\* What the image_prompt of an upstream scene can be under a canon: absent,
\* a plain text with or without the canon's details written into it, the
\* JSON text of a number, of a string, of null, of a list, and of objects
\* with and without characters and scene.
UpstreamPrompts(canon) ==
  { PromptText("absent", <<>>),
    PromptText("text", <<"Zara runs">>),
    PromptText("text", CanonText(canon) \o <<"Zara runs">>),
    PromptText("scalar", <<"42">>),
    PromptText("scalar", <<"\"Zara runs\"">>),
    PromptText("null", <<"null">>),
    PromptText("list", <<"[]">>),
    PromptObject(<<"{}">>, <<>>, <<>>, <<>>),
    PromptObject(<<"{mood}">>, <<>>, <<>>, <<"dark">>),
    PromptObject(<<"{characters,scene}">>, canon, <<"Zara runs">>, <<>>),
    PromptObject(<<"{described,scene}">>,
                 <<Sheet(<<"Zara">>, <<>>, <<"hair of", "Zara">>)>>,
                 <<"Zara runs">>, <<"dark">>),
    PromptObject(<<"{nullchar}">>, <<NullSheet(<<"Zara">>)>>, <<>>, <<>>) }

PromptScenes(canon) ==
  [image_prompt : UpstreamPrompts(canon),
   scene_description_for_prompt : {<<"Zara runs">>}]

\* A parsed response with its canon and scenes, and the aspect ratio and
\* image model of the run's options.
PromptUpstreams ==
  UNION { [canon : {canon},
           scenes : UNION {[1..k -> PromptScenes(canon)] : k \in 1..MaxScenes},
           aspectRatio : AspectRatios, imageModel : ImageModels]
          : canon \in CharacterCanons }

NoUpstream ==
  [canon |-> <<>>, scenes |-> <<>>, aspectRatio |-> "SQUARE",
   imageModel |-> "GEMINI_2_FLASH_IMG"]

NoRequest ==
  [kind |-> "none", model |-> "none", prompt |-> <<>>, hasSeed |-> FALSE,
   seed |-> 0, hasAspectRatio |-> FALSE, aspectRatio |-> "none"]

\* The images a panel can hold when it is exported: two that load, one that
\* does not.
ExportImages == Images \cup {"imgX"}

\* img.onload / img.onerror, img.width and img.height of an image reference:
\* a square image, a wide one (4:1), and one that fails to load.
ImageInfo(url) ==
  IF url = "imgA" THEN [loads |-> TRUE, width |-> 1024, height |-> 1024]
  ELSE IF url = "imgB" THEN [loads |-> TRUE, width |-> 2048, height |-> 512]
  ELSE [loads |-> FALSE, width |-> 0, height |-> 0]

\* What a panel of the list can hold when it is exported: no image, the
\* error marker or an image that fails to load (with the run's caption and
\* a dialogue); the square image with or without a caption and with up to
\* MaxDialogues dialogues, short or long; the wide image with or without a
\* caption and with one long dialogue.
ExportContents ==
  [imageUrl : {"absent", "error", "imgX"}, caption : {RunCaption},
   dialogues : {<<<<"hi">>>>}]
    \cup [imageUrl : {"imgA"}, caption : {NullCaption, Caption(<<"para">>)},
          dialogues : SeqsUpTo({<<"hi">>, <<"long">>}, MaxDialogues)]
    \cup [imageUrl : {"imgB"}, caption : {NullCaption, Caption(<<"para">>)},
          dialogues : {<<<<"long">>>>}]

\* The panel list with the given contents, numbered in list order.
ExportPanelList(contents) ==
  [p \in DOMAIN contents |->
     [scene_number |-> p, image_prompt |-> "plain",
      caption |-> contents[p].caption, dialogues |-> contents[p].dialogues,
      imageUrl |-> contents[p].imageUrl]]

\* A page of the document: the panel number of its label, whether the label
\* is a continuation label, the embedded image and its size, the notice
\* written in place of an image, and the texts with their positions.
\* A length that is a quotient of two integers, and its whole part.
Quot(num, den) == [num |-> num, den |-> den]
Whole(q) == q.num \div q.den

BlankPage ==
  [panel |-> 0, cont |-> FALSE, image |-> "none", imgWidth |-> Quot(0, 1),
   imgHeight |-> Quot(0, 1), notice |-> "none", texts |-> <<>>]

\* The images whose scaling is explored on its own: every width and
\* height up to MaxDim.
ScaleInputs ==
  [width : 1..MaxDim, height : 1..MaxDim, isLandscape : BOOLEAN]

NoScaled == [done |-> FALSE, width |-> Quot(0, 1), height |-> Quot(0, 1)]

VARIABLES
  apiKey, comicPanels, isLoading, error, progress,
  hError, hPanelsEmpty,
  pc, options, scenePrompts, i, cError, cPanelsEmpty,
  retries, attempts, waits, result, script,
  calls, timers, runEnd

\* The parser on its own: the response it is given and what it returned.
VARIABLES response, parsed

\* The prompts of a run on their own: the parsed response and the options,
\* the panels stored from it, the panel reached and the request built for it.
VARIABLES upstream, stored, ppos, request

\* handleDownloadPdf: the aspect ratio of the last run, the downloading
\* flag, the document, the loop index and whether the document was saved.
VARIABLES currentAspectRatio, isDownloadingPdf, doc, exPos, saved

\* What the export handler captured when it was created (the panel list and
\* the aspect ratio of that render), and the document of the export before
\* when that one was of the same panel list under the same aspect ratio.
VARIABLES exPanels, exRatio, prevDoc

\* The scaling of one image on its own: the image and page orientation,
\* and the size it is given.
VARIABLES scaleInput, scaled

\* An earlier invocation of handleComicGeneration whose loop goes on after
\* the handler was invoked again: what its closure holds.
VARIABLES abandoned

parseVars == <<response, parsed>>
promptVars == <<upstream, stored, ppos, request>>
pdfVars == <<isDownloadingPdf, doc, exPos, saved, exPanels, exRatio, prevDoc>>
exportVars == <<currentAspectRatio, pdfVars>>
scaleVars == <<scaleInput, scaled>>
handlerVars == <<abandoned>>
auxVars == <<parseVars, promptVars, exportVars, scaleVars, handlerVars>>

ParseIdle ==
  /\ response = NoResponse
  /\ parsed = NoParse

PromptIdle ==
  /\ upstream = NoUpstream
  /\ stored = <<>>
  /\ ppos = 0
  /\ request = NoRequest

PdfIdle ==
  /\ isDownloadingPdf = FALSE
  /\ doc = <<>>
  /\ exPos = 0
  /\ saved = FALSE
  /\ exPanels = <<>>
  /\ exRatio = "SQUARE"
  /\ prevDoc = <<>>

ExportIdle ==
  /\ currentAspectRatio = "SQUARE"
  /\ PdfIdle

ScaleIdle ==
  /\ scaleInput = [width |-> 1, height |-> 1, isLandscape |-> FALSE]
  /\ scaled = NoScaled

HandlerIdle == abandoned = NoAbandoned

AuxInit ==
  /\ ParseIdle
  /\ PromptIdle
  /\ ExportIdle
  /\ ScaleIdle
  /\ HandlerIdle

appVars == <<apiKey, comicPanels, isLoading, error, progress, hError, hPanelsEmpty>>
runVars == <<pc, options, scenePrompts, i, cError, cPanelsEmpty, calls, timers, runEnd>>
callVars == <<retries, attempts, waits, result, script, auxVars>>
vars == <<appVars, runVars, callVars>>

(***************************************************************************)
(* generateScenePrompts: validation of the parsed response and the map     *)
(* from upstream scenes to panel records.                                  *)
(***************************************************************************)
\* scene_number: panel.scene_number || index + 1 (index is 0-based there,
\* idx is 1-based here); an absent or zero scene_number is falsy.
SceneNumberOf(scene, idx) ==
  IF scene.scene_number # 0 THEN scene.scene_number ELSE idx

\* image_prompt: panel.image_prompt || "No prompt generated for this scene."
ImagePromptOf(scene) ==
  IF scene.image_prompt = "absent" THEN "plain" ELSE scene.image_prompt

\* !parsedData.characterCanon || typeof parsedData.characterCanon !== 'object'
CanonRejected(canon) == canon \in {"absent", "scalar"}

\* One dialogue entry as a string: a string as it is, a pair with a truthy
\* character and line as `character: "line"`, anything else by String(d).
FormatDialogue(d) ==
  IF d.type = "string" THEN d.text
  ELSE IF d.type = "pair" /\ d.character # <<>> /\ d.line # <<>>
  THEN d.character \o <<": \"">> \o d.line \o <<"\"">>
  ELSE IF d.type = "pair" THEN <<"[object Object]">>
  ELSE <<"null">>

\* includeCaptions && captionPlacement === CaptionPlacement.IN_UI
ShownInUi(opts) == opts.includeCaptions /\ opts.captionPlacement = "IN_UI"

\* The caption copied whatever the placement is.
FinalCaptionAnyPlacement(scene, opts) ==
  IF opts.includeCaptions
  THEN IF scene.caption.isNull THEN Caption(<<>>) ELSE scene.caption
  ELSE NullCaption

\* finalCaption = panel.caption || "" under IN_UI, null otherwise.
FinalCaption(scene, opts) ==
  IF ShownInUi(opts)
  THEN IF scene.caption.isNull THEN Caption(<<>>) ELSE scene.caption
  ELSE NullCaption

\* finalDialogues: the entries mapped and the empty strings filtered out
\* under IN_UI when dialogues is an array, [] otherwise.
FinalDialogues(scene, opts) ==
  IF ShownInUi(opts) /\ scene.dialoguesIsArray
  THEN SelectSeq([k \in 1..Len(scene.dialogues) |-> FormatDialogue(scene.dialogues[k])],
                 LAMBDA str : str # <<>>)
  ELSE <<>>

generateScenePrompts(resp, opts) ==
  IF resp.kind # "parsed" THEN [ok |-> FALSE, panels |-> <<>>]
  ELSE IF ~resp.scenesIsArray THEN [ok |-> FALSE, panels |-> <<>>]
  ELSE IF CanonRejected(resp.canon) THEN [ok |-> FALSE, panels |-> <<>>]
  ELSE [ok |-> TRUE,
        panels |-> [idx \in 1..Len(resp.scenes) |->
                      [scene_number |-> SceneNumberOf(resp.scenes[idx], idx),
                       image_prompt |-> ImagePromptOf(resp.scenes[idx]),
                       caption |-> FinalCaption(resp.scenes[idx], opts),
                       dialogues |-> FinalDialogues(resp.scenes[idx], opts)]]]

(***************************************************************************)
(* generateImageForPrompt: prompt augmentation and the catch block of the  *)
(* retry loop.                                                             *)
(***************************************************************************)
\* The loop over sceneDetails.characters reads char.IVAP: a null entry of the
\* mapping raises a TypeError before the retry loop is entered.
AugmentThrows(prompt) == prompt = "nullchar"

\* panel.image_prompt || "No prompt generated for this scene."
StoredImagePrompt(scene) ==
  IF scene.image_prompt.kind = "absent" \/ scene.image_prompt.raw = <<>>
  THEN PromptText("text", <<"No prompt generated for this scene.">>)
  ELSE scene.image_prompt

\* JSON.stringify({characters: characterCanon, scene, mood: "default"})
SceneBundle(canon, scene) ==
  PromptObject(<<"{bundle}">>, canon, scene.scene_description_for_prompt,
               <<"default">>)

\* The panels returned for a response whose shape passed validation.
PromptPanels(up) ==
  [idx \in 1..Len(up.scenes) |->
     [scene_number |-> idx,
      image_prompt |-> StoredImagePrompt(up.scenes[idx]),
      scene_description_for_prompt |-> SceneBundle(up.canon, up.scenes[idx])]]

\* sceneDetails: the parsed prompt when it is a truthy object (a list is
\* one), {} when it parses to anything else, {scene: prompt} when
\* JSON.parse throws.
SceneDetails(prompt) ==
  IF prompt.kind = "text"
  THEN [characters |-> <<>>, scene |-> prompt.raw, mood |-> <<>>]
  ELSE IF prompt.kind \in {"list", "object"}
  THEN [characters |-> prompt.characters, scene |-> prompt.scene,
        mood |-> prompt.mood]
  ELSE [characters |-> <<>>, scene |-> <<>>, mood |-> <<>>]

\* Reading char.IVAP of a null entry raises a TypeError.
AugmentRaises(prompt) ==
  \E k \in DOMAIN SceneDetails(prompt).characters :
    SceneDetails(prompt).characters[k].isNull

\* `Character: ${ivap}, ${description}.`
CharacterSection(char) ==
  <<"Character:">>
    \o (IF char.IVAP # <<>> THEN char.IVAP \o <<"(">> \o char.name \o <<")">>
        ELSE char.name)
    \o <<",">>
    \o (IF char.description # <<>> THEN char.description
        ELSE <<"detailed description unavailable">>)
    \o <<".">>

RECURSIVE characterSections(_)
characterSections(characters) ==
  IF characters = <<>> THEN <<>>
  ELSE CharacterSection(Head(characters)) \o characterSections(Tail(characters))

sceneContext(details) ==
  (IF details.scene # <<>> THEN <<"Scene:">> \o details.scene \o <<".">> ELSE <<>>)
    \o (IF details.mood # <<>> THEN <<"Mood:">> \o details.mood \o <<".">> ELSE <<>>)

augmentedPrompt(prompt) ==
  <<"[CHARACTER CANON AND SCENE CONTEXT - MANDATORY START]">>
    \o characterSections(SceneDetails(prompt).characters)
    \o sceneContext(SceneDetails(prompt))
    \o <<"[END OF CHARACTER CANON AND SCENE CONTEXT]",
         "[MANDATORY ARTISTIC DIRECTIVES]", "[NEGATIVE PROMPTS]">>

apiAspectRatioValue(inputAspectRatio) ==
  CASE inputAspectRatio = "SQUARE" -> "1:1"
    [] inputAspectRatio = "PORTRAIT" -> "9:16"
    [] inputAspectRatio = "LANDSCAPE" -> "16:9"
    [] OTHER -> "1:1"

\* The request of one attempt: generateContent for the flash image model,
\* generateImages for every other model; none when augmentation raised.
ImageRequest(prompt, inputAspectRatio, imageModelName) ==
  IF AugmentRaises(prompt)
  THEN [NoRequest EXCEPT !.kind = "thrown"]
  ELSE IF imageModelName = "GEMINI_2_FLASH_IMG"
  THEN [kind |-> "generateContent", model |-> imageModelName,
        prompt |-> augmentedPrompt(prompt), hasSeed |-> TRUE,
        seed |-> FIXED_IMAGE_SEED, hasAspectRatio |-> FALSE,
        aspectRatio |-> "none"]
  ELSE [kind |-> "generateImages", model |-> imageModelName,
        prompt |-> augmentedPrompt(prompt), hasSeed |-> TRUE,
        seed |-> FIXED_IMAGE_SEED, hasAspectRatio |-> TRUE,
        aspectRatio |-> apiAspectRatioValue(inputAspectRatio)]

isAuthError(marks) == "auth" \in marks
isRateLimitError(marks) == "rate" \in marks
isInternalServerError(marks) == "server" \in marks
isSafetyError(marks) == "safety" \in marks

\* The catch block with the retry budget short by one.
CatchBlockShortBudget(marks, r) ==
  IF isAuthError(marks)
  THEN [act |-> "throw", retries |-> r,
        err |-> [kind |-> "apikey", img |-> "none", attempt |-> 0, total |-> 0,
                 model |-> TRUE]]
  ELSE IF (isRateLimitError(marks) \/ isInternalServerError(marks))
            /\ r < maxRetries - 1
  THEN [act |-> "retry", retries |-> r + 1, err |-> NoResult]
  ELSE IF isSafetyError(marks)
  THEN [act |-> "throw", retries |-> r,
        err |-> [kind |-> "safety", img |-> "none", attempt |-> 0, total |-> 0,
                 model |-> FALSE]]
  ELSE [act |-> "throw", retries |-> r,
        err |-> [kind |-> "failed", img |-> "none", attempt |-> r + 1,
                 total |-> maxRetries + 1, model |-> TRUE]]

\* The catch block with the last attempt's failure reported without the
\* attempt count.
CatchBlockNoAttemptCount(marks, r) ==
  IF isAuthError(marks)
  THEN [act |-> "throw", retries |-> r,
        err |-> [kind |-> "apikey", img |-> "none", attempt |-> 0, total |-> 0,
                 model |-> TRUE]]
  ELSE IF (isRateLimitError(marks) \/ isInternalServerError(marks)) /\ r < maxRetries
  THEN [act |-> "retry", retries |-> r + 1, err |-> NoResult]
  ELSE IF isSafetyError(marks)
  THEN [act |-> "throw", retries |-> r,
        err |-> [kind |-> "safety", img |-> "none", attempt |-> 0, total |-> 0,
                 model |-> FALSE]]
  ELSE [act |-> "throw", retries |-> r,
        err |-> [kind |-> "exhausted", img |-> "none", attempt |-> 0, total |-> 0,
                 model |-> TRUE]]

\* The catch block with the retry test ahead of the API-key test.
CatchBlockRetryFirst(marks, r) ==
  IF (isRateLimitError(marks) \/ isInternalServerError(marks)) /\ r < maxRetries
  THEN [act |-> "retry", retries |-> r + 1, err |-> NoResult]
  ELSE IF isAuthError(marks)
  THEN [act |-> "throw", retries |-> r,
        err |-> [kind |-> "apikey", img |-> "none", attempt |-> 0, total |-> 0,
                 model |-> TRUE]]
  ELSE IF isSafetyError(marks)
  THEN [act |-> "throw", retries |-> r,
        err |-> [kind |-> "safety", img |-> "none", attempt |-> 0, total |-> 0,
                 model |-> FALSE]]
  ELSE [act |-> "throw", retries |-> r,
        err |-> [kind |-> "failed", img |-> "none", attempt |-> r + 1,
                 total |-> maxRetries + 1, model |-> TRUE]]

\* The catch block: what the call does with a failed attempt when `r`
\* retries have been used so far.
CatchBlock(marks, r) ==
  IF isAuthError(marks)
  THEN [act |-> "throw", retries |-> r,
        err |-> [kind |-> "apikey", img |-> "none", attempt |-> 0, total |-> 0,
                 model |-> TRUE]]
  ELSE IF (isRateLimitError(marks) \/ isInternalServerError(marks)) /\ r < maxRetries
  THEN [act |-> "retry", retries |-> r + 1, err |-> NoResult]
  ELSE IF isSafetyError(marks)
  THEN [act |-> "throw", retries |-> r,
        err |-> [kind |-> "safety", img |-> "none", attempt |-> 0, total |-> 0,
                 model |-> FALSE]]
  ELSE [act |-> "throw", retries |-> r,
        err |-> [kind |-> "failed", img |-> "none", attempt |-> r + 1,
                 total |-> maxRetries + 1, model |-> TRUE]]

\* The delay with the exponent taken from the incremented retry count.
DelayTimeExponentOff(r, jitter) == baseDelayMs * 2^r + jitter

\* delayTime = baseDelayMs * 2^(retries - 1) + jitter, retries already
\* incremented.
DelayTime(r, jitter) == baseDelayMs * 2^(r - 1) + jitter

ImageResult(img) ==
  [kind |-> "image", img |-> img, attempt |-> 0, total |-> 0, model |-> FALSE]

(***************************************************************************)
(* handleComicGeneration: the run loop.  Positions are 1-based here (the   *)
(* source's i is position - 1).                                            *)
(***************************************************************************)
Blank(key) == key = ""

\* scenePrompts.map(p => ({ ...p, imageUrl: undefined }))
initialPanels(sp) ==
  [p \in 1..Len(sp) |->
     [scene_number |-> sp[p].scene_number,
      image_prompt |-> sp[p].image_prompt,
      caption |-> sp[p].caption,
      dialogues |-> sp[p].dialogues,
      imageUrl |-> "absent"]]

\* SetImageUrl without the catch branch's update: the marker is not written.
SetImageUrlDropsMarker(prevPanels, sn, url) ==
  [p \in 1..Len(prevPanels) |->
     IF prevPanels[p].scene_number = sn /\ url # "error"
     THEN [prevPanels[p] EXCEPT !.imageUrl = url]
     ELSE prevPanels[p]]

\* prevPanels.map(p => p.scene_number === panel.scene_number
\*                      ? { ...p, imageUrl } : p)
SetImageUrl(prevPanels, sn, url) ==
  [p \in 1..Len(prevPanels) |->
     IF prevPanels[p].scene_number = sn
     THEN [prevPanels[p] EXCEPT !.imageUrl = url]
     ELSE prevPanels[p]]

\* setError(prevError => prevError ? `${prevError}\n${msg}` : msg)
\* A message is kept as the panel it names (0: the run's own error).
AppendError(prevError, sn) == Append(prevError, sn)

\* The outer catch without its setError call.
SceneErrorNotSet == <<>>

SceneError == <<0>>

\* "Please enter your API Key to generate comics."
KeyError == <<-1>>

AnalyzingProgress ==
  [step |-> "analyzing", num |-> 0, den |-> 1, currentPanel |-> 0, totalPanels |-> 0]
StartingProgress(total) ==
  [step |-> "starting", num |-> 10, den |-> 1, currentPanel |-> 0,
   totalPanels |-> total]
\* The panel percentage on a scale that leaves no room for the first ten.
PanelProgressFullScale(pos, total) ==
  [step |-> "panel", num |-> 10 * total + pos * 100, den |-> total,
   currentPanel |-> pos, totalPanels |-> total]
\* percentage = 10 + ((i + 1) / totalPanels) * 90, kept as num / den
PanelProgress(pos, total) ==
  [step |-> "panel", num |-> 10 * total + pos * 90, den |-> total,
   currentPanel |-> pos, totalPanels |-> total]
CompleteProgress(total) ==
  [step |-> "complete", num |-> 100, den |-> 1, currentPanel |-> total,
   totalPanels |-> total]

\* The calls from pos on issued together, as an unawaited loop would.
IssueImageCallUnawaited(cs, pos) ==
  [p \in DOMAIN cs |-> IF p >= pos THEN "inflight" ELSE cs[p]]

\* The call for position pos is issued: it is the one in flight.
IssueImageCall(cs, pos) == [cs EXCEPT ![pos] = "inflight"]

\* The loop from position pos on, up to the next await or the loop's end.
\* A call whose prompt augmentation throws is rejected without any API
\* attempt and is handled by the inner catch in the same turn.
RECURSIVE RunLoop(_, _, _)
RunLoop(sp, st, pos) ==
  IF pos > Len(sp)
  THEN [st EXCEPT !.done = TRUE, !.at = pos,
                  !.progress = CompleteProgress(Len(sp)),
                  !.res = NoResult, !.retries = 0, !.attempts = 0,
                  !.waits = <<>>]
  ELSE IF AugmentThrows(sp[pos].image_prompt)
  THEN RunLoop(sp,
               [st EXCEPT
                  !.panels = SetImageUrl(st.panels, sp[pos].scene_number, "error"),
                  !.err = AppendError(st.err, sp[pos].scene_number),
                  !.calls = [st.calls EXCEPT ![pos] = "resolved"],
                  !.res = NoResult, !.retries = 0, !.attempts = 0,
                  !.waits = <<>>],
               pos + 1)
  ELSE [st EXCEPT !.done = FALSE, !.at = pos,
                  !.progress = PanelProgress(pos, Len(sp)),
                  !.calls = IssueImageCall(st.calls, pos),
                  !.res = NoResult, !.retries = 0, !.attempts = 1,
                  !.waits = <<>>]

\* The finally block: "now" clears the loading flag at once, "timer" leaves
\* it to the 2000 ms timeout.  capErr and capEmpty are what the handler's
\* closure captured: error is truthy, comicPanels.length === 0.
Finally(capErr, capEmpty, spLen) ==
  IF capErr /\ capEmpty /\ spLen = 0 THEN "now"
  ELSE IF ~capErr /\ spLen > 0 THEN "timer"
  ELSE "now"

\* The state the handler leaves when it suspends or returns.
Apply(sp, st) ==
  /\ comicPanels' = st.panels
  /\ error' = st.err
  /\ calls' = st.calls
  /\ i' = st.at
  /\ retries' = st.retries
  /\ attempts' = st.attempts
  /\ waits' = st.waits
  /\ result' = st.res
  /\ IF st.done
     THEN /\ pc' = "idle"
          /\ runEnd' = "completed"
          /\ scenePrompts' = <<>>
          /\ cError' = FALSE
          /\ cPanelsEmpty' = TRUE
          /\ IF Finally(cError, cPanelsEmpty, Len(sp)) = "timer"
             THEN /\ timers' = timers + 1
                  /\ progress' = st.progress
                  /\ UNCHANGED isLoading
             ELSE /\ isLoading' = FALSE
                  /\ progress' = NoProgress
                  /\ UNCHANGED timers
     ELSE /\ pc' = "image"
          /\ progress' = st.progress
          /\ scenePrompts' = sp
          /\ UNCHANGED <<runEnd, timers, isLoading, cError, cPanelsEmpty>>
  /\ UNCHANGED <<apiKey, hError, hPanelsEmpty, options, script, auxVars>>

\* The key input: the handler is created again when apiKey changes and
\* captures the error and the panel list of that render.
SetApiKey(key) ==
  /\ key # apiKey
  /\ apiKey' = key
  /\ hError' = (error # NoError)
  /\ hPanelsEmpty' = (Len(comicPanels) = 0)
  /\ UNCHANGED <<comicPanels, isLoading, error, progress, runVars, callVars>>

\* The handler from setIsLoading(true) up to the await of
\* generateScenePrompts.
StartRun(opts) ==
  /\ isLoading' = TRUE
  /\ error' = NoError
  /\ comicPanels' = <<>>
  /\ progress' = AnalyzingProgress
  /\ pc' = "scene"
  /\ options' = opts
  /\ scenePrompts' = <<>>
  /\ i' = 0
  /\ cError' = hError
  /\ cPanelsEmpty' = hPanelsEmpty
  /\ calls' = <<>>
  /\ runEnd' = "running"
  /\ retries' = 0 /\ attempts' = 0 /\ waits' = <<>> /\ result' = NoResult
  /\ currentAspectRatio' = opts.aspectRatio
  /\ UNCHANGED <<apiKey, hError, hPanelsEmpty, timers, script, parseVars,
                 promptVars, pdfVars, scaleVars>>

\* The submit of a form whose button stays enabled during a run.
SubmitWhileLoading(opts) ==
  /\ ~Blank(apiKey)
  /\ StartRun(opts)
  /\ UNCHANGED handlerVars

\* The submit button (enabled unless loading or the key is blank) runs the
\* handler up to the await of generateScenePrompts.
Submit(opts) ==
  /\ ~isLoading
  /\ ~Blank(apiKey)
  /\ StartRun(opts)
  /\ UNCHANGED handlerVars

\* generateScenePrompts settles; the handler goes on to the first await of
\* the loop, or to its catch and finally blocks.
SceneResolved(resp) ==
  /\ pc = "scene"
  /\ LET r == generateScenePrompts(resp, options) IN
     IF ~r.ok \/ Len(r.panels) = 0
     THEN /\ error' = SceneError
          /\ comicPanels' = <<>>
          /\ progress' = NoProgress
          /\ isLoading' = FALSE
          /\ pc' = "idle"
          /\ runEnd' = "sceneFailed"
          /\ cError' = FALSE
          /\ cPanelsEmpty' = TRUE
          /\ UNCHANGED <<apiKey, hError, hPanelsEmpty, options, scenePrompts, i,
                         calls, timers, callVars>>
     ELSE Apply(r.panels,
                RunLoop(r.panels,
                        [panels |-> initialPanels(r.panels), err |-> error,
                         calls |-> [p \in 1..Len(r.panels) |-> "none"],
                         at |-> 0, done |-> FALSE,
                         progress |-> StartingProgress(Len(r.panels)),
                         res |-> NoResult, retries |-> 0, attempts |-> 0,
                         waits |-> <<>>],
                        1))

\* The current state as the loop's record.
LoopState ==
  [panels |-> comicPanels, err |-> error, calls |-> calls, at |-> i,
   done |-> FALSE, progress |-> progress, res |-> result,
   retries |-> retries, attempts |-> attempts, waits |-> waits]

\* One API attempt of the call in flight settles with outcome o.
ImageAttemptDone(o) ==
  /\ pc = "image"
  /\ LET panel == scenePrompts[i]
         c == CatchBlock(o.marks, retries)
     IN
     IF o.kind = "image"
     THEN Apply(scenePrompts,
                RunLoop(scenePrompts,
                        [LoopState EXCEPT
                           !.panels = SetImageUrl(comicPanels, panel.scene_number, o.img),
                           !.calls = [calls EXCEPT ![i] = "resolved"]],
                        i + 1))
     ELSE IF c.act = "retry"
     THEN /\ retries' = c.retries
          /\ pc' = "delay"
          /\ UNCHANGED <<appVars, options, scenePrompts, i, cError, cPanelsEmpty,
                         calls, timers, runEnd, attempts, waits, result, script, auxVars>>
     ELSE Apply(scenePrompts,
                RunLoop(scenePrompts,
                        [LoopState EXCEPT
                           !.panels = SetImageUrl(comicPanels, panel.scene_number, "error"),
                           !.err = AppendError(error, panel.scene_number),
                           !.calls = [calls EXCEPT ![i] = "resolved"]],
                        i + 1))

\* The retry delay elapses: while (retries <= maxRetries) issues the next
\* attempt; past the loop the call throws and the inner catch records it.
DelayDone ==
  /\ pc = "delay"
  /\ script = <<>>
  /\ IF retries <= maxRetries
     THEN /\ pc' = "image"
          /\ attempts' = attempts + 1
          /\ UNCHANGED <<appVars, options, scenePrompts, i, cError, cPanelsEmpty,
                         calls, timers, runEnd, retries, waits, result, script, auxVars>>
     ELSE Apply(scenePrompts,
                RunLoop(scenePrompts,
                        [LoopState EXCEPT
                           !.panels = SetImageUrl(comicPanels,
                                                  scenePrompts[i].scene_number, "error"),
                           !.err = AppendError(error, scenePrompts[i].scene_number),
                           !.calls = [calls EXCEPT ![i] = "resolved"]],
                        i + 1))

\* The timeout when it clears the flag and leaves the progress record.
TimerFireKeepsProgress ==
  /\ timers > 0
  /\ timers' = timers - 1
  /\ isLoading' = FALSE
  /\ UNCHANGED <<apiKey, comicPanels, error, progress, hError, hPanelsEmpty, pc,
                 options, scenePrompts, i, cError, cPanelsEmpty, calls, runEnd,
                 callVars>>

\* The 2000 ms timeout of the finally block fires.
TimerFire ==
  /\ timers > 0
  /\ timers' = timers - 1
  /\ isLoading' = FALSE
  /\ progress' = NoProgress
  /\ UNCHANGED <<apiKey, comicPanels, error, hError, hPanelsEmpty, pc, options,
                 scenePrompts, i, cError, cPanelsEmpty, calls, runEnd, callVars>>

\* The Dismiss button of the error box.
Dismiss ==
  /\ error # NoError
  /\ error' = NoError
  /\ UNCHANGED <<apiKey, comicPanels, isLoading, progress, hError, hPanelsEmpty,
                 runVars, callVars>>

Init ==
  /\ apiKey = ""
  /\ comicPanels = <<>>
  /\ isLoading = FALSE
  /\ error = NoError
  /\ progress = NoProgress
  /\ hError = FALSE
  /\ hPanelsEmpty = TRUE
  /\ pc = "idle"
  /\ options = DefaultOptions
  /\ scenePrompts = <<>>
  /\ i = 0
  /\ cError = FALSE
  /\ cPanelsEmpty = TRUE
  /\ retries = 0
  /\ attempts = 0
  /\ waits = <<>>
  /\ result = NoResult
  /\ script = <<>>
  /\ calls = <<>>
  /\ timers = 0
  /\ runEnd = "none"
  /\ AuxInit

Next ==
  \/ \E key \in ApiKeys : SetApiKey(key)
  \/ \E opts \in Options : Submit(opts)
  \/ \E resp \in RunSceneResponses : SceneResolved(resp)
  \/ \E o \in RunOutcomes : ImageAttemptDone(o)
  \/ DelayDone
  \/ TimerFire
  \/ Dismiss

Spec == Init /\ [][Next]_vars

TypeOK ==
  /\ apiKey \in ApiKeys
  /\ isLoading \in BOOLEAN
  /\ pc \in {"idle", "scene", "image", "delay"}
  /\ retries \in 0..maxRetries
  /\ timers \in 0..1
  /\ runEnd \in {"none", "running", "sceneFailed", "completed"}

(***************************************************************************)
(* One call of generateImageForPrompt on its own: the API answers the      *)
(* attempts as the script says (any answer past the script's end).         *)
(***************************************************************************)
Scripts == [1..(maxRetries + 1) -> Outcomes]

ExhaustedError ==
  [kind |-> "exhausted", img |-> "none", attempt |-> 0, total |-> 0, model |-> TRUE]

CallAttemptDone ==
  /\ pc = "image"
  /\ script # <<>>
  /\ \E o \in Outcomes :
       /\ attempts <= Len(script) => o = script[attempts]
       /\ LET c == CatchBlock(o.marks, retries) IN
          IF o.kind = "image"
          THEN /\ result' = ImageResult(o.img)
               /\ pc' = "idle"
               /\ UNCHANGED <<retries, waits>>
          ELSE IF c.act = "retry"
          THEN /\ retries' = c.retries
               /\ \E jitter \in Jitters :
                    waits' = Append(waits, DelayTime(c.retries, jitter))
               /\ pc' = "delay"
               /\ UNCHANGED result
          ELSE /\ result' = c.err
               /\ pc' = "idle"
               /\ UNCHANGED <<retries, waits>>
  /\ UNCHANGED <<appVars, options, scenePrompts, i, cError, cPanelsEmpty, calls,
                 timers, runEnd, attempts, script, auxVars>>

CallDelayDone ==
  /\ pc = "delay"
  /\ script # <<>>
  /\ IF retries <= maxRetries
     THEN /\ pc' = "image"
          /\ attempts' = attempts + 1
          /\ UNCHANGED result
     ELSE /\ pc' = "idle"
          /\ result' = ExhaustedError
          /\ UNCHANGED attempts
  /\ UNCHANGED <<appVars, options, scenePrompts, i, cError, cPanelsEmpty, calls,
                 timers, runEnd, retries, waits, script, auxVars>>

InitRetry ==
  /\ apiKey = "key"
  /\ comicPanels = <<>>
  /\ isLoading = FALSE
  /\ error = NoError
  /\ progress = NoProgress
  /\ hError = FALSE
  /\ hPanelsEmpty = TRUE
  /\ pc = "image"
  /\ options = DefaultOptions
  /\ scenePrompts = <<>>
  /\ i = 0
  /\ cError = FALSE
  /\ cPanelsEmpty = TRUE
  /\ retries = 0
  /\ attempts = 1
  /\ waits = <<>>
  /\ result = NoResult
  /\ script \in Scripts
  /\ calls = <<>>
  /\ timers = 0
  /\ runEnd = "none"
  /\ AuxInit

NextRetry == CallAttemptDone \/ CallDelayDone

SpecRetry == InitRetry /\ [][NextRetry]_vars

(***************************************************************************)
(* Properties of a run (Spec).                                             *)
(***************************************************************************)
InLoop == runEnd = "running" /\ pc \in {"image", "delay"}

\* C1: a scene-generation step treated as successful leaves exactly
\* numPages panels in the panel list; a response with fewer scenes than
\* requested is not accepted as the run's panel list.
C1_PanelCountIsPageCount ==
  (InLoop \/ runEnd = "completed") => Len(comicPanels) = options.numPages

\* C2: the scene_number values of the panels of an accepted scene list are
\* 1..len in list order (hence pairwise distinct), whatever scene_number
\* values the upstream scenes carry.
C2_SceneNumbersDense ==
  InLoop => \A p \in 1..Len(scenePrompts) : scenePrompts[p].scene_number = p

\* C3: within a run, a panel's imageUrl that has been assigned (an image or
\* the error marker) is not changed by any later step of the run.
C3_ImageUrlAssignedOnce ==
  [][\A p \in 1..Len(comicPanels) :
       (runEnd = "running" /\ comicPanels[p].imageUrl # "absent")
         => /\ p <= Len(comicPanels')
            /\ comicPanels'[p].imageUrl = comicPanels[p].imageUrl]_vars

\* C4: when the loop of a run with n >= 1 panels has ended, an image call
\* has been issued and resolved for every one of the n panels, however the
\* earlier calls ended, and every panel holds an image or the error marker.
C4_EveryPanelCalledAndResolved ==
  runEnd = "completed"
    => /\ Len(comicPanels) >= 1
       /\ Len(calls) = Len(comicPanels)
       /\ \A p \in 1..Len(comicPanels) :
            /\ calls[p] = "resolved"
            /\ comicPanels[p].imageUrl # "absent"

C4_Witness ==
  /\ runEnd = "completed"
  /\ Len(comicPanels) = 2
  /\ comicPanels[1].scene_number # comicPanels[2].scene_number
  /\ comicPanels[1].imageUrl = "error"
  /\ comicPanels[2].imageUrl \in Images

\* C5: a run whose scene-generation step fails (thrown error or empty
\* scene list) ends with an empty panel list and a non-null error message,
\* and no image call is issued in that run.
C5_SceneFailureAbortsRun ==
  [][(runEnd = "running" /\ runEnd' = "sceneFailed")
       => /\ comicPanels' = <<>>
          /\ error' # NoError
          /\ calls' = <<>>
          /\ attempts' = 0
          /\ pc' = "idle"]_vars

C5_Witness ==
  runEnd = "sceneFailed" /\ comicPanels = <<>> /\ error # NoError /\ calls = <<>>

\* C6: at most one image call is in flight at any time, and the call for a
\* position is issued only after the calls of all earlier positions have
\* resolved.
C6_OneCallInFlight ==
  /\ Cardinality({p \in 1..Len(calls) : calls[p] = "inflight"}) <= 1
  /\ \A p \in 1..Len(calls) :
       calls[p] # "none" => \A q \in 1..(p - 1) : calls[q] = "resolved"
  /\ InLoop => calls[i] = "inflight"

C6_Witness ==
  /\ Len(calls) = 2
  /\ calls[1] = "resolved"
  /\ calls[2] = "inflight"
  /\ pc = "delay"
  /\ retries = maxRetries

(***************************************************************************)
(* Properties of one call of generateImageForPrompt (SpecRetry).           *)
(***************************************************************************)
\* The class of a failed attempt, in the order the contract lists them.
ErrClass(o) ==
  IF o.kind # "error" THEN "none"
  ELSE IF "auth" \in o.marks THEN "auth"
  ELSE IF "safety" \in o.marks THEN "safety"
  ELSE IF "rate" \in o.marks \/ "server" \in o.marks THEN "transient"
  ELSE "other"

\* Attempt j has been made and has settled.
Settled(j) == attempts > j \/ (attempts = j /\ pc # "image")

\* C7: if the first k attempts (k in 0..2) fail with rate-limit or server
\* errors and attempt k+1 returns an image, the call returns that image
\* after exactly k+1 API attempts.
C7_RetryThenSuccess ==
  \A k \in 0..maxRetries :
    ( /\ script # <<>>
      /\ \A j \in 1..k : ErrClass(script[j]) = "transient"
      /\ script[k + 1].kind = "image" )
    => /\ attempts <= k + 1
       /\ pc = "idle" => /\ result = ImageResult(script[k + 1].img)
                         /\ attempts = k + 1

C7_Witness ==
  /\ script # <<>>
  /\ ErrClass(script[1]) = "transient"
  /\ ErrClass(script[2]) = "transient"
  /\ script[3].kind = "image"
  /\ pc = "idle"
  /\ attempts = 3
  /\ result = ImageResult(script[3].img)

\* C8: if every attempt fails with a rate-limit or server error, the call
\* ends after exactly maxRetries + 1 = 3 API attempts with an error that
\* names the model and the attempt count; a fourth attempt is never made.
C8_RetriesExhausted ==
  ( /\ script # <<>>
    /\ \A j \in 1..(maxRetries + 1) : ErrClass(script[j]) = "transient" )
  => /\ attempts <= maxRetries + 1
     /\ Settled(maxRetries + 1) => pc = "idle"
     /\ pc = "idle" => /\ attempts = maxRetries + 1
                       /\ result.kind = "failed"
                       /\ result.model
                       /\ result.attempt = maxRetries + 1
                       /\ result.total = maxRetries + 1

C8_Witness ==
  /\ script # <<>>
  /\ \A j \in 1..(maxRetries + 1) : ErrClass(script[j]) = "transient"
  /\ pc = "idle"
  /\ attempts = 3
  /\ result.kind = "failed"
  /\ Len(waits) = 2

\* C9: after an attempt that fails with a content-safety error no further
\* attempt is made and the error reaches the caller at once, also when its
\* message matches the rate-limit or server markers and retries remain.
C9_SafetyNeverRetried ==
  \A j \in 1..Len(script) :
    (ErrClass(script[j]) = "safety" /\ Settled(j))
      => /\ attempts = j
         /\ pc = "idle"
         /\ result.kind = "safety"

\* C10: after an attempt that fails with an authentication/permission
\* error the call throws at once, with no further attempt and no delay,
\* whatever retries are left and whatever other markers the error carries.
C10_AuthThrowsAtOnce ==
  \A j \in 1..Len(script) :
    (ErrClass(script[j]) = "auth" /\ Settled(j))
      => /\ attempts = j
         /\ pc = "idle"
         /\ result.kind = "apikey"
         /\ Len(waits) = j - 1

C10_Witness ==
  /\ script # <<>>
  /\ ErrClass(script[1]) = "transient"
  /\ script[2].kind = "error"
  /\ script[2].marks = Markers
  /\ pc = "idle"
  /\ attempts = 2
  /\ retries = 1
  /\ result.kind = "apikey"

\* C11: a further API attempt is made only after an attempt that failed
\* with a rate-limit or server error; an attempt that fails with an error
\* of any other class ends the call with a thrown error after that attempt.
C11_RetryOnlyAfterTransient ==
  \A j \in 1..Len(script) :
    /\ attempts > j => ErrClass(script[j]) = "transient"
    /\ (script[j].kind = "error" /\ ErrClass(script[j]) # "transient" /\ Settled(j))
         => /\ attempts = j
            /\ pc = "idle"
            /\ result.kind \in {"apikey", "safety", "failed"}

\* C12: the wait before retry k (k = 1, 2) is at least 2000 * 2^(k-1) ms
\* and less than 2000 * 2^(k-1) + 1000 ms; there is exactly one wait before
\* each retry, none before the first attempt and none after the final
\* failure.
C12_BackoffDelays ==
  script # <<>>
    => /\ \A k \in 1..Len(waits) :
            /\ k <= maxRetries
            /\ waits[k] >= baseDelayMs * 2^(k - 1)
            /\ waits[k] < baseDelayMs * 2^(k - 1) + 1000
       /\ pc = "delay" => Len(waits) = attempts
       /\ pc # "delay" => Len(waits) = attempts - 1

C12_Witness ==
  /\ script # <<>>
  /\ pc = "idle"
  /\ result.kind = "failed"
  /\ attempts = maxRetries + 1
  /\ Len(waits) = maxRetries
  /\ waits[1] = 2999
  /\ waits[2] = 4000

(***************************************************************************)
(* generateScenePrompts on its own: one response, one set of options.      *)
(***************************************************************************)
ParseResolved ==
  /\ response # NoResponse
  /\ parsed.kind = "pending"
  /\ LET r == generateScenePrompts(response, options) IN
       parsed' = [kind |-> "done", ok |-> r.ok, panels |-> r.panels]
  /\ UNCHANGED <<appVars, runVars, retries, attempts, waits, result, script, response,
                 promptVars, exportVars, scaleVars, handlerVars>>

InitParse ==
  /\ apiKey = "key"
  /\ comicPanels = <<>>
  /\ isLoading = FALSE
  /\ error = NoError
  /\ progress = NoProgress
  /\ hError = FALSE
  /\ hPanelsEmpty = TRUE
  /\ pc = "idle"
  /\ options \in ParseOptions
  /\ scenePrompts = <<>>
  /\ i = 0
  /\ cError = FALSE
  /\ cPanelsEmpty = TRUE
  /\ retries = 0
  /\ attempts = 0
  /\ waits = <<>>
  /\ result = NoResult
  /\ script = <<>>
  /\ calls = <<>>
  /\ timers = 0
  /\ runEnd = "none"
  /\ response \in ParseResponses
  /\ parsed = NoParse
  /\ PromptIdle
  /\ ExportIdle
  /\ ScaleIdle
  /\ HandlerIdle

NextParse == ParseResolved

SpecParse == InitParse /\ [][NextParse]_vars

\* C13: unless captions are enabled and the placement is 'show in
\* interface', every returned panel has caption null and an empty dialogue
\* list, whatever captions and dialogues the upstream scenes carry.
C13_CaptionsHiddenUnlessInUi ==
  (parsed.kind = "done" /\ parsed.ok /\ ~ShownInUi(options))
    => \A p \in 1..Len(parsed.panels) :
         /\ parsed.panels[p].caption = NullCaption
         /\ parsed.panels[p].dialogues = <<>>

C13_Witness ==
  /\ parsed.kind = "done"
  /\ parsed.ok
  /\ options.includeCaptions
  /\ options.captionPlacement = "IN_IMAGE"
  /\ Len(parsed.panels) = 2
  /\ \A p \in 1..2 :
       /\ response.scenes[p].caption = Caption(<<"cap">>)
       /\ Len(response.scenes[p].dialogues) = MaxDialogues
       /\ parsed.panels[p].caption = NullCaption
       /\ parsed.panels[p].dialogues = <<>>

\* C14: with captions enabled and placement 'show in interface', each
\* panel's caption equals the upstream caption, and its dialogue list has
\* exactly one entry per upstream dialogue entry, in the same order: a
\* string as it is, a {character, line} pair as  character: "line".
ExpectedDialogue(d) ==
  IF d.type = "pair" THEN d.character \o <<": \"">> \o d.line \o <<"\"">>
  ELSE d.text

C14_CaptionAndDialoguesCopied ==
  (parsed.kind = "done" /\ parsed.ok /\ ShownInUi(options))
    => \A p \in 1..Len(parsed.panels) :
         /\ parsed.panels[p].caption = response.scenes[p].caption
         /\ response.scenes[p].dialoguesIsArray
              => /\ Len(parsed.panels[p].dialogues) = Len(response.scenes[p].dialogues)
                 /\ \A k \in 1..Len(response.scenes[p].dialogues) :
                      response.scenes[p].dialogues[k].type \in {"string", "pair"}
                        => parsed.panels[p].dialogues[k]
                             = ExpectedDialogue(response.scenes[p].dialogues[k])

\* C15: generateScenePrompts fails, and yields no panels, for every parsed
\* response whose scene list is absent or not a list, or whose character
\* canon is absent or is not a name-to-description mapping.
C15_MalformedResponseRejected ==
  ( /\ parsed.kind = "done"
    /\ response.kind = "parsed"
    /\ (~response.scenesIsArray \/ response.canon # "map") )
  => /\ ~parsed.ok
     /\ parsed.panels = <<>>

(***************************************************************************)
(* The prompts of a run on their own: the scene step stores the panels of  *)
(* a parsed response, then the loop hands each panel's image_prompt, with  *)
(* the aspect ratio and image model of the options, to                     *)
(* generateImageForPrompt, which builds the request.                       *)
(***************************************************************************)
PromptSceneStep ==
  /\ upstream # NoUpstream
  /\ stored = <<>>
  /\ stored' = PromptPanels(upstream)
  /\ UNCHANGED <<appVars, runVars, retries, attempts, waits, result, script,
                 parseVars, upstream, ppos, request, exportVars,
                 scaleVars, handlerVars>>

PromptImageCall ==
  /\ ppos < Len(stored)
  /\ ppos' = ppos + 1
  /\ request' = ImageRequest(stored[ppos + 1].image_prompt,
                             upstream.aspectRatio, upstream.imageModel)
  /\ UNCHANGED <<appVars, runVars, retries, attempts, waits, result, script,
                 parseVars, upstream, stored, exportVars, scaleVars, handlerVars>>

InitPrompt ==
  /\ apiKey = "key"
  /\ comicPanels = <<>>
  /\ isLoading = FALSE
  /\ error = NoError
  /\ progress = NoProgress
  /\ hError = FALSE
  /\ hPanelsEmpty = TRUE
  /\ pc = "idle"
  /\ options = DefaultOptions
  /\ scenePrompts = <<>>
  /\ i = 0
  /\ cError = FALSE
  /\ cPanelsEmpty = TRUE
  /\ retries = 0
  /\ attempts = 0
  /\ waits = <<>>
  /\ result = NoResult
  /\ script = <<>>
  /\ calls = <<>>
  /\ timers = 0
  /\ runEnd = "none"
  /\ ParseIdle
  /\ upstream \in PromptUpstreams
  /\ stored = <<>>
  /\ ppos = 0
  /\ request = NoRequest
  /\ ExportIdle
  /\ ScaleIdle
  /\ HandlerIdle

NextPrompt == PromptSceneStep \/ PromptImageCall

SpecPrompt == InitPrompt /\ [][NextPrompt]_vars

Contains(text, part) ==
  \E k \in 0..(Len(text) - Len(part)) : SubSeq(text, k + 1, k + Len(part)) = part

RequestSent == request.kind \in {"generateContent", "generateImages"}

\* C16: the prompt of every image request of a run contains, for each
\* character of the canon the scene step received in that run, the
\* character's stored description.
C16_PromptCarriesCanon ==
  RequestSent =>
    \A k \in DOMAIN upstream.canon :
      Contains(request.prompt, upstream.canon[k].appearance)

NotBundle(prompt) ==
  \/ prompt.kind \in {"text", "scalar", "null", "list"}
  \/ prompt.kind = "object" /\ prompt.scene = <<>>

\* C17: for a stored prompt that is not a structured bundle (plain text, or
\* the JSON text of a scalar, null, a list or an object without scene),
\* augmentation raises no error and the augmented prompt has the stored
\* text as its scene text.
C17_FallbackKeepsPromptText ==
  (ppos > 0 /\ NotBundle(stored[ppos].image_prompt)) =>
    /\ request.kind # "thrown"
    /\ Contains(request.prompt,
                <<"Scene:">> \o stored[ppos].image_prompt.raw \o <<".">>)

\* C18: every image request, of either shape, carries the fixed seed and
\* the aspect ratio that the run's setting maps to: SQUARE to 1:1, PORTRAIT
\* to 9:16, LANDSCAPE to 16:9.
C18_RequestCarriesSeedAndRatio ==
  RequestSent =>
    /\ request.hasSeed /\ request.seed = 42
    /\ request.hasAspectRatio
    /\ upstream.aspectRatio = "SQUARE" => request.aspectRatio = "1:1"
    /\ upstream.aspectRatio = "PORTRAIT" => request.aspectRatio = "9:16"
    /\ upstream.aspectRatio = "LANDSCAPE" => request.aspectRatio = "16:9"

(***************************************************************************)
(* handleDownloadPdf: the document built from the panel list.  Lengths are *)
(* in hundredths of a millimetre.                                          *)
(***************************************************************************)
Unit == 100

A4_WIDTH_MM(isLandscape) == IF isLandscape THEN 297 * Unit ELSE 210 * Unit
A4_HEIGHT_MM(isLandscape) == IF isLandscape THEN 210 * Unit ELSE 297 * Unit
MARGIN_MM == 10 * Unit
MAX_IMG_WIDTH(isLandscape) == A4_WIDTH_MM(isLandscape) - 2 * MARGIN_MM
MAX_IMG_HEIGHT_AREA(isLandscape) ==
  (A4_HEIGHT_MM(isLandscape) * 65) \div 100 - MARGIN_MM
TEXT_START_Y_OFFSET == 10 * Unit

\* pdf.splitTextToSize(text, MAX_IMG_WIDTH).length: the number of lines a
\* text wraps to ("long" and "para" stand for texts of 64 and 13 lines).
splitTextToSize(text) ==
  IF \E k \in DOMAIN text : text[k] = "long" THEN 64
  ELSE IF \E k \in DOMAIN text : text[k] = "para" THEN 13
  ELSE 1

\* The scaled size: the full content width, or the full image area height
\* when the height at that width exceeds it.
\* The cap on the height without the width computed again.
pdfImgSizeKeepsWidth(imgWidth, imgHeight, isLandscape) ==
  LET pdfImgHeight == Quot(MAX_IMG_WIDTH(isLandscape) * imgHeight, imgWidth) IN
    IF pdfImgHeight.num > MAX_IMG_HEIGHT_AREA(isLandscape) * pdfImgHeight.den
    THEN [width |-> Quot(MAX_IMG_WIDTH(isLandscape), 1),
          height |-> Quot(MAX_IMG_HEIGHT_AREA(isLandscape), 1)]
    ELSE [width |-> Quot(MAX_IMG_WIDTH(isLandscape), 1), height |-> pdfImgHeight]

\* pdfImgHeight = pdfImgWidth / (imgWidth / imgHeight) and, past the cap,
\* pdfImgWidth = pdfImgHeight * (imgWidth / imgHeight), as quotients.
pdfImgSize(imgWidth, imgHeight, isLandscape) ==
  LET pdfImgHeight == Quot(MAX_IMG_WIDTH(isLandscape) * imgHeight, imgWidth) IN
    IF pdfImgHeight.num > MAX_IMG_HEIGHT_AREA(isLandscape) * pdfImgHeight.den
    THEN [width |-> Quot(MAX_IMG_HEIGHT_AREA(isLandscape) * imgWidth, imgHeight),
          height |-> Quot(MAX_IMG_HEIGHT_AREA(isLandscape), 1)]
    ELSE [width |-> Quot(MAX_IMG_WIDTH(isLandscape), 1), height |-> pdfImgHeight]

\* The image test without the comparison with the marker.
HasImageIgnoresMarker(panel) == panel.imageUrl # "absent"

\* panel.imageUrl && panel.imageUrl !== 'error'
HasImage(panel) == panel.imageUrl # "absent" /\ panel.imageUrl # "error"

\* The cursor compared with the foot of the page.
PastLastLineAtPageFoot(currentTextY, isLandscape) ==
  currentTextY > A4_HEIGHT_MM(isLandscape)

\* currentTextY > A4_HEIGHT_MM - MARGIN_MM - 10
PastLastLine(currentTextY, isLandscape) ==
  currentTextY > A4_HEIGHT_MM(isLandscape) - MARGIN_MM - 10 * Unit

\* pdf.text(...) on the current (last) page.
AddText(pages, item) ==
  [pages EXCEPT ![Len(pages)].texts = Append(@, item)]

\* The forEach over panel.dialogues: a continuation page with the panel's
\* label when the cursor is past the last line, then the dialogue.
RECURSIVE WriteDialogues(_, _, _, _, _)
WriteDialogues(dialogues, currentTextY, pages, panel, isLandscape) ==
  IF dialogues = <<>> THEN pages
  ELSE
    LET over == PastLastLine(currentTextY, isLandscape)
        pages1 == IF over
                  THEN Append(pages, [BlankPage EXCEPT !.panel = panel.scene_number,
                                                       !.cont = TRUE])
                  ELSE pages
        y == IF over THEN MARGIN_MM + 10 * Unit ELSE currentTextY
        dialogueLines == splitTextToSize(Head(dialogues))
    IN WriteDialogues(
         Tail(dialogues), y + dialogueLines * 4 * Unit + 2 * Unit,
         AddText(pages1, [kind |-> "dialogue", y |-> y, lines |-> dialogueLines]),
         panel, isLandscape)

\* The inner catch without its pdf.text call.
LoadErrorPageSilent(pages) == pages

\* The inner catch: the notice is written on the panel's page.
LoadErrorPage(pages) ==
  [pages EXCEPT ![Len(pages)].notice = "Error loading image for this panel."]

\* One iteration of the loop over comicPanels.
ExportPanelPages(pages, panel, idx, isLandscape) ==
  LET pages0 == IF idx > 0 THEN Append(pages, BlankPage) ELSE pages
      labelled == [pages0 EXCEPT ![Len(pages0)].panel = panel.scene_number]
      last == Len(labelled)
  IN
    IF HasImage(panel)
    THEN
      IF ~ImageInfo(panel.imageUrl).loads
      THEN LoadErrorPage(labelled)
      ELSE
        LET size == pdfImgSize(ImageInfo(panel.imageUrl).width,
                               ImageInfo(panel.imageUrl).height, isLandscape)
            imgY == MARGIN_MM + 10 * Unit
            withImage == [labelled EXCEPT ![last].image = panel.imageUrl,
                                          ![last].imgWidth = size.width,
                                          ![last].imgHeight = size.height]
            textY == imgY + Whole(size.height) + TEXT_START_Y_OFFSET
            hasCaption == ~panel.caption.isNull /\ panel.caption.text # <<>>
            captionLines == splitTextToSize(<<"Caption: ">> \o panel.caption.text)
            withCaption ==
              IF hasCaption
              THEN AddText(withImage, [kind |-> "caption", y |-> textY,
                                       lines |-> captionLines])
              ELSE withImage
            afterCaption ==
              IF hasCaption THEN textY + captionLines * 5 * Unit + 5 * Unit
              ELSE textY
        IN WriteDialogues(panel.dialogues, afterCaption, withCaption, panel,
                          isLandscape)
    ELSE [labelled EXCEPT ![last].notice =
            IF panel.imageUrl = "error"
            THEN "Image generation failed for this panel."
            ELSE "Image not available for this panel."]

\* The export without the loading half of its guard.
ExportStartWhileLoading ==
  /\ ~(comicPanels = <<>>)
  /\ ~isDownloadingPdf
  /\ isDownloadingPdf' = TRUE
  /\ doc' = <<BlankPage>>
  /\ exPos' = 0
  /\ saved' = FALSE
  /\ exPanels' = comicPanels
  /\ exRatio' = currentAspectRatio
  /\ prevDoc' = IF saved /\ exPanels = comicPanels /\ exRatio = currentAspectRatio
                 THEN doc ELSE <<>>
  /\ UNCHANGED <<appVars, runVars, retries, attempts, waits, result, script,
                 parseVars, promptVars, currentAspectRatio, scaleVars, handlerVars>>

\* The export on a document that is kept from one export to the next.
ExportStartReusesDocument ==
  /\ ~(comicPanels = <<>> \/ isLoading)
  /\ ~isDownloadingPdf
  /\ isDownloadingPdf' = TRUE
  /\ doc' = IF doc = <<>> THEN <<BlankPage>> ELSE Append(doc, BlankPage)
  /\ exPos' = 0
  /\ saved' = FALSE
  /\ exPanels' = comicPanels
  /\ exRatio' = currentAspectRatio
  /\ prevDoc' = IF saved /\ exPanels = comicPanels /\ exRatio = currentAspectRatio
                 THEN doc ELSE <<>>
  /\ UNCHANGED <<appVars, runVars, retries, attempts, waits, result, script,
                 parseVars, promptVars, currentAspectRatio, scaleVars, handlerVars>>

\* The Download button (rendered when the list is not empty and no run is
\* loading, disabled while a download is going on) runs the handler up to
\* its first image load: the guard, the flag and a new document of one page.
ExportStart ==
  /\ ~(comicPanels = <<>> \/ isLoading)
  /\ ~isDownloadingPdf
  /\ isDownloadingPdf' = TRUE
  /\ doc' = <<BlankPage>>
  /\ exPos' = 0
  /\ saved' = FALSE
  /\ exPanels' = comicPanels
  /\ exRatio' = currentAspectRatio
  /\ prevDoc' = IF saved /\ exPanels = comicPanels /\ exRatio = currentAspectRatio
                 THEN doc ELSE <<>>
  /\ UNCHANGED <<appVars, runVars, retries, attempts, waits, result, script,
                 parseVars, promptVars, currentAspectRatio, scaleVars, handlerVars>>

\* One iteration of the loop settles: the panel's image loaded or failed.
ExportPanel ==
  /\ isDownloadingPdf
  /\ exPos < Len(exPanels)
  /\ doc' = ExportPanelPages(doc, exPanels[exPos + 1], exPos,
                             exRatio = "LANDSCAPE")
  /\ exPos' = exPos + 1
  /\ UNCHANGED <<appVars, runVars, retries, attempts, waits, result, script,
                 parseVars, promptVars, currentAspectRatio, isDownloadingPdf,
                 saved, exPanels, exRatio, prevDoc, scaleVars, handlerVars>>

\* pdf.save and the finally block.
ExportSave ==
  /\ isDownloadingPdf
  /\ exPos = Len(exPanels)
  /\ saved' = TRUE
  /\ isDownloadingPdf' = FALSE
  /\ UNCHANGED <<appVars, runVars, retries, attempts, waits, result, script,
                 parseVars, promptVars, currentAspectRatio, doc, exPos,
                 exPanels, exRatio, prevDoc, scaleVars, handlerVars>>

InitExport ==
  /\ apiKey = "key"
  /\ \E k \in 0..MaxScenes :
       \E contents \in [1..k -> ExportContents] :
         comicPanels = ExportPanelList(contents)
  /\ isLoading = FALSE
  /\ error = NoError
  /\ progress = NoProgress
  /\ hError = FALSE
  /\ hPanelsEmpty = TRUE
  /\ pc = "idle"
  /\ options = DefaultOptions
  /\ scenePrompts = <<>>
  /\ i = 0
  /\ cError = FALSE
  /\ cPanelsEmpty = TRUE
  /\ retries = 0
  /\ attempts = 0
  /\ waits = <<>>
  /\ result = NoResult
  /\ script = <<>>
  /\ calls = <<>>
  /\ timers = 0
  /\ runEnd = "none"
  /\ ParseIdle
  /\ PromptIdle
  /\ currentAspectRatio \in AspectRatios
  /\ PdfIdle
  /\ ScaleIdle
  /\ HandlerIdle

NextExport == ExportStart \/ ExportPanel \/ ExportSave

SpecExport == InitExport /\ [][NextExport]_vars

\* The pages that open a panel, in document order.
PanelPagesOf(pages) == SelectSeq(pages, LAMBDA pg : ~pg.cont)

\* The last line at which a dialogue fits: 10 mm above the bottom margin.
LastLine == A4_HEIGHT_MM(currentAspectRatio = "LANDSCAPE") - MARGIN_MM - 10 * Unit

\* Where the text cursor stands after the last thing put on a page.
CursorAfter(pg) ==
  IF pg.texts = <<>>
  THEN MARGIN_MM + 10 * Unit + Whole(pg.imgHeight) + TEXT_START_Y_OFFSET
  ELSE LET t == pg.texts[Len(pg.texts)] IN
         IF t.kind = "caption" THEN t.y + t.lines * 5 * Unit + 5 * Unit
         ELSE t.y + t.lines * 4 * Unit + 2 * Unit

C20_PlaceholderUnlessRealImage ==
  (isDownloadingPdf \/ saved) /\ exPos > 0 /\ Len(PanelPagesOf(doc)) = exPos =>
    \A k \in 1..exPos :
      LET pg == PanelPagesOf(doc)[k]
          url == comicPanels[k].imageUrl
      IN /\ url = "absent" =>
              pg.image = "none" /\ pg.notice = "Image not available for this panel."
         /\ url = "error" =>
              pg.image = "none" /\ pg.notice = "Image generation failed for this panel."
         /\ pg.image # "none" =>
              url \in ExportImages /\ pg.image = url /\ pg.notice = "none"

C20_Witness ==
  /\ saved
  /\ Len(comicPanels) = 2
  /\ comicPanels[1].imageUrl = "error"
  /\ comicPanels[2].imageUrl = "imgA"
  /\ Len(doc) = 2
  /\ doc[1].notice = "Image generation failed for this panel."
  /\ doc[2].image = "imgA"

FailsToLoad(panel) == HasImage(panel) /\ ~ImageInfo(panel.imageUrl).loads

\* C21: a panel whose image fails to load gets a page with the load-error
\* notice and no image, and the export goes on: it is still in progress
\* after that panel, and the saved document has a page for every panel of
\* the list, the later ones included.
C21_LoadFailureIsNoticedAndExportGoesOn ==
  /\ (isDownloadingPdf \/ saved) /\ exPos > 0 /\ Len(PanelPagesOf(doc)) = exPos =>
       \A k \in 1..exPos :
         FailsToLoad(comicPanels[k]) =>
           /\ PanelPagesOf(doc)[k].notice = "Error loading image for this panel."
           /\ PanelPagesOf(doc)[k].image = "none"
           /\ PanelPagesOf(doc)[k].panel = comicPanels[k].scene_number
  /\ (exPos > 0 /\ ~saved) => isDownloadingPdf
  /\ saved => /\ exPos = Len(comicPanels)
              /\ Len(PanelPagesOf(doc)) = Len(comicPanels)

C21_Witness ==
  /\ saved
  /\ Len(comicPanels) = 2
  /\ comicPanels[1].imageUrl = "imgX"
  /\ comicPanels[2].imageUrl = "imgA"
  /\ Len(doc) >= 2
  /\ doc[1].notice = "Error loading image for this panel."
  /\ doc[2].image = "imgA"
  /\ doc[2].panel = 2

(***************************************************************************)
(* The scaling of handleDownloadPdf on its own: one image, one page        *)
(* orientation.                                                            *)
(***************************************************************************)
ScaleImage ==
  /\ ~scaled.done
  /\ LET size == pdfImgSize(scaleInput.width, scaleInput.height,
                            scaleInput.isLandscape) IN
       scaled' = [done |-> TRUE, width |-> size.width, height |-> size.height]
  /\ UNCHANGED <<appVars, runVars, retries, attempts, waits, result, script,
                 parseVars, promptVars, exportVars, scaleInput,
                 handlerVars>>

InitScale ==
  /\ apiKey = "key"
  /\ comicPanels = <<>>
  /\ isLoading = FALSE
  /\ error = NoError
  /\ progress = NoProgress
  /\ hError = FALSE
  /\ hPanelsEmpty = TRUE
  /\ pc = "idle"
  /\ options = DefaultOptions
  /\ scenePrompts = <<>>
  /\ i = 0
  /\ cError = FALSE
  /\ cPanelsEmpty = TRUE
  /\ retries = 0
  /\ attempts = 0
  /\ waits = <<>>
  /\ result = NoResult
  /\ script = <<>>
  /\ calls = <<>>
  /\ timers = 0
  /\ runEnd = "none"
  /\ ParseIdle
  /\ PromptIdle
  /\ ExportIdle
  /\ HandlerIdle
  /\ scaleInput \in ScaleInputs
  /\ scaled = NoScaled

NextScale == ScaleImage

SpecScale == InitScale /\ [][NextScale]_vars

\* C22: for every image of positive width and height and both page
\* orientations, the exported width is at most the content width, the
\* exported height is at most the image area height, and exported width /
\* exported height equals the image's width / height.
C22_ScaledWithinBoxKeepingRatio ==
  scaled.done =>
    /\ scaled.width.num > 0 /\ scaled.height.num > 0
    /\ scaled.width.num <= MAX_IMG_WIDTH(scaleInput.isLandscape) * scaled.width.den
    /\ scaled.height.num
         <= MAX_IMG_HEIGHT_AREA(scaleInput.isLandscape) * scaled.height.den
    /\ scaled.width.num * scaled.height.den * scaleInput.height
         = scaled.height.num * scaled.width.den * scaleInput.width

\* A tall image on a landscape page: the height is capped.
C22_Witness ==
  /\ scaled.done
  /\ scaleInput.isLandscape
  /\ scaleInput.width = 9 /\ scaleInput.height = 12
  /\ scaled.height = Quot(MAX_IMG_HEIGHT_AREA(TRUE), 1)
  /\ scaled.width.num < MAX_IMG_WIDTH(TRUE) * scaled.width.den

\* The text of a page: its label, its notice and its captions and
\* dialogues with their positions.
PageText(pg) ==
  [panel |-> pg.panel, cont |-> pg.cont, notice |-> pg.notice, texts |-> pg.texts]

AppResponses ==
  {resp \in RunSceneResponses :
     /\ resp.kind \in {"apierror", "parsed"}
     /\ resp.kind = "parsed" =>
          /\ resp.canon = "map"
          /\ resp.scenes # <<>>
          /\ \A p \in 1..Len(resp.scenes) :
               /\ resp.scenes[p].image_prompt = "plain"
               /\ resp.scenes[p].scene_number = p}

AppOutcomes ==
  {o \in RunOutcomes : o.img # "imgB" /\ o.marks \in {{}, {"rate"}, {"safety"}}}

NextApp ==
  \/ \E key \in ApiKeys : SetApiKey(key)
  \/ \E opts \in AppOptions : Submit(opts)
  \/ \E resp \in AppResponses : SceneResolved(resp)
  \/ \E o \in AppOutcomes : ImageAttemptDone(o)
  \/ DelayDone
  \/ TimerFire
  \/ Dismiss
  \/ ExportStart
  \/ ExportPanel
  \/ ExportSave

SpecApp == Init /\ [][NextApp]_vars

\* Every panel of the list has its image or its error marker.
AllResolved(panels) ==
  \A p \in 1..Len(panels) : panels[p].imageUrl # "absent"

\* C24: whenever the panel list is not empty and the loading flag is false,
\* every panel has an image or the error marker; an export starts only
\* then, so the list an export walks is never empty and holds no panel
\* whose call is still to settle.
C24_ExportOnlyOnResolvedPanels ==
  /\ [](comicPanels # <<>> /\ ~isLoading => AllResolved(comicPanels))
  /\ [][(isDownloadingPdf' /\ ~isDownloadingPdf)
          => (comicPanels # <<>> /\ ~isLoading)]_vars
  /\ [](isDownloadingPdf => exPanels # <<>> /\ AllResolved(exPanels))

C24_Witness ==
  /\ isDownloadingPdf
  /\ ~isLoading
  /\ exPos = 1
  /\ exPanels = comicPanels
  /\ Len(comicPanels) = 2
  /\ comicPanels[1].imageUrl = "imgA"
  /\ comicPanels[2].imageUrl = "error"

\* C28: at most one run is active at a time: a run that awaits a call or
\* whose closing timer is pending keeps the loading flag set, a run starts
\* only from a state with no run active and the flag false, at most one
\* closing timer is pending, and no step replaces the options or the calls
\* of a run that awaits its scene call.
C28_OneRunAtATime ==
  /\ []((pc # "idle" \/ timers > 0) => isLoading)
  /\ [](timers <= 1)
  /\ [][(pc' = "scene" /\ pc # "scene")
          => (pc = "idle" /\ timers = 0 /\ ~isLoading)]_vars
  /\ [][(pc = "scene" /\ pc' = "scene") => calls' = calls /\ options' = options]_vars

C28_Witness ==
  /\ pc = "idle"
  /\ timers = 1
  /\ isLoading
  /\ ~Blank(apiKey)
  /\ Len(comicPanels) = 2

\* C26: while a run awaits an image call, a step changes the imageUrl only
\* of a panel whose own call resolves in that step; the list keeps its
\* length and order, and every panel keeps its scene_number, image_prompt,
\* caption and dialogues.
C26_OnlyResolvedPanelChanges ==
  [][(pc \in {"image", "delay"} /\ runEnd = "running")
       => /\ Len(comicPanels') = Len(comicPanels)
          /\ \A p \in 1..Len(comicPanels) :
               /\ comicPanels'[p].scene_number = comicPanels[p].scene_number
               /\ comicPanels'[p].image_prompt = comicPanels[p].image_prompt
               /\ comicPanels'[p].caption = comicPanels[p].caption
               /\ comicPanels'[p].dialogues = comicPanels[p].dialogues
               /\ comicPanels'[p].imageUrl # comicPanels[p].imageUrl
                    => (calls[p] # "resolved" /\ calls'[p] = "resolved")]_vars

(***************************************************************************)
(* The handler called with a blank key: the form never does so (its button *)
(* is disabled and handleSubmit returns), the handler itself answers with  *)
(* a message and returns.                                                  *)
(***************************************************************************)
\* The blank-key branch when it also empties the list.
InvokeBlankClearsList ==
  /\ Blank(apiKey)
  /\ error' = KeyError
  /\ comicPanels' = <<>>
  /\ UNCHANGED <<apiKey, isLoading, progress, hError, hPanelsEmpty,
                 runVars, callVars>>

\* if (!apiKey.trim()) { setError(...); return; }
InvokeBlank ==
  /\ Blank(apiKey)
  /\ error' = KeyError
  /\ UNCHANGED <<apiKey, comicPanels, isLoading, progress, hError, hPanelsEmpty,
                 runVars, callVars>>

NextKey ==
  \/ \E key \in ApiKeys : SetApiKey(key)
  \/ \E opts \in Options : Submit(opts)
  \/ \E resp \in RunSceneResponses : SceneResolved(resp)
  \/ \E o \in RunOutcomes : ImageAttemptDone(o)
  \/ DelayDone
  \/ TimerFire
  \/ Dismiss
  \/ InvokeBlank

SpecKey == Init /\ [][NextKey]_vars

\* C27: a run starts only with a non-blank key, and the step that starts
\* it leaves an empty panel list, no error and no image call; while the
\* scene call is awaited the list stays empty and the error holds no
\* message of a panel or of a run; once the run's panels exist, every
\* image or error marker in the list and every panel message in the error
\* comes from a call of this run that has resolved.  The handler called
\* with a blank key sets its message and changes neither the panel list nor
\* any call.
C27_StartClearsAndBlankKeyLeaves ==
  /\ [][(pc' = "scene" /\ pc # "scene")
          => /\ ~Blank(apiKey)
             /\ comicPanels' = <<>>
             /\ error' = NoError
             /\ calls' = <<>>]_vars
  /\ [](pc = "scene"
          => comicPanels = <<>> /\ calls = <<>> /\ error \in {NoError, KeyError})
  /\ [](pc \in {"image", "delay"}
          => /\ Len(comicPanels) = Len(scenePrompts)
             /\ \A p \in 1..Len(comicPanels) :
                  comicPanels[p].imageUrl # "absent"
                    => \E q \in 1..Len(calls) :
                         /\ calls[q] = "resolved"
                         /\ scenePrompts[q].scene_number = comicPanels[p].scene_number
             /\ \A k \in 1..Len(error) :
                  error[k] # KeyError[1]
                    => \E q \in 1..Len(calls) :
                         /\ calls[q] = "resolved"
                         /\ scenePrompts[q].scene_number = error[k])
  /\ [][(error' = KeyError /\ error # KeyError)
          => /\ Blank(apiKey)
             /\ UNCHANGED <<comicPanels, pc, calls, attempts, isLoading,
                            progress, scenePrompts>>]_vars

C27_Witness ==
  /\ Blank(apiKey)
  /\ error = KeyError
  /\ ~isLoading
  /\ Len(comicPanels) = 2
  /\ comicPanels[1].imageUrl = "imgA"

\* One percentage is at most another (both kept as num / den).
AtMost(a, b) == a.num * b.den <= b.num * a.den

\* C30: while a progress record is shown its percentage is within 0..100,
\* currentPanel is at most totalPanels, and totalPanels (in the records
\* that carry it) is the length of the panel list; from one record to the
\* next the percentage does not decrease, neither between two awaits nor
\* along the updates of one loop.
C30_ProgressBoundedAndMonotone ==
  /\ [](progress # NoProgress
          => /\ 0 <= progress.num /\ progress.num <= 100 * progress.den
             /\ progress.currentPanel <= progress.totalPanels
             /\ progress.step # "analyzing"
                  => progress.totalPanels = Len(comicPanels))
  /\ [][(progress # NoProgress /\ progress' # NoProgress)
          => AtMost(progress, progress')]_vars
  /\ [](\A total \in 1..MaxScenes :
          /\ AtMost(AnalyzingProgress, StartingProgress(total))
          /\ AtMost(StartingProgress(total), PanelProgress(1, total))
          /\ AtMost(PanelProgress(total, total), CompleteProgress(total))
          /\ \A pos \in 1..(total - 1) :
               AtMost(PanelProgress(pos, total), PanelProgress(pos + 1, total)))

C30_Witness ==
  /\ pc = "image"
  /\ progress.step = "panel"
  /\ progress.currentPanel = 2
  /\ progress.totalPanels = 2
  /\ progress.num = 100 * progress.den
  /\ Len(comicPanels) = 2

(***************************************************************************)
(* The App when every API call settles, every retry delay elapses and the  *)
(* closing timer fires: each is a promise or a timeout the runtime         *)
(* completes once it is pending.                                           *)
(***************************************************************************)
NextFair ==
  \/ \E key \in ApiKeys : SetApiKey(key)
  \/ \E opts \in AppOptions : Submit(opts)
  \/ \E resp \in AppResponses : SceneResolved(resp)
  \/ \E o \in AppOutcomes : ImageAttemptDone(o)
  \/ DelayDone
  \/ TimerFire
  \/ Dismiss

SpecFair ==
  /\ Init
  /\ [][NextFair]_vars
  /\ WF_vars(\E resp \in AppResponses : SceneResolved(resp))
  /\ WF_vars(\E o \in AppOutcomes : ImageAttemptDone(o))
  /\ WF_vars(DelayDone)
  /\ WF_vars(TimerFire)

\* C29: whenever the loading flag is set, a state follows in which the flag
\* is false and the progress record is cleared, however the scene call and
\* the image calls end and whatever error the handler captured when it was
\* created.
C29_RunEndsNotLoading ==
  isLoading ~> (~isLoading /\ progress = NoProgress)

C29_Witness ==
  /\ runEnd = "completed"
  /\ ~isLoading
  /\ progress = NoProgress
  /\ hError
  /\ timers = 0
  /\ Len(comicPanels) = 2
  /\ comicPanels[1].imageUrl = "imgA"
  /\ comicPanels[2].imageUrl = "error"

(***************************************************************************)
(* handleComicGeneration called again while its earlier invocation awaits  *)
(* an image call.  The form never does so (its button is disabled while    *)
(* loading); the handler itself keeps no token of the run it belongs to,   *)
(* and the earlier invocation's loop goes on over the same state setters.  *)
(***************************************************************************)
\* What generateImageForPrompt ends with once its retries are over.
CallResults == {"imgA", "error"}

\* The handler is invoked again: the earlier invocation keeps its locals
\* and its call in flight, the new one starts as any run does.
Reinvoke(opts) ==
  /\ pc \in {"image", "delay"}
  /\ ~Blank(apiKey)
  /\ ~abandoned.live
  /\ timers = 0
  /\ abandoned' = [live |-> TRUE, scenePrompts |-> scenePrompts, i |-> i,
                   calls |-> calls, cError |-> cError,
                   cPanelsEmpty |-> cPanelsEmpty]
  /\ StartRun(opts)

\* The earlier invocation's call settles with url (an image, or "error"
\* for a rejection): its functional updates act on the current list and
\* error, and its loop goes on to its next await or to its finally block.
AbandonedImageDone(url) ==
  /\ abandoned.live
  /\ LET sp == abandoned.scenePrompts
         sn == sp[abandoned.i].scene_number
         st == RunLoop(sp,
                       [panels |-> SetImageUrl(comicPanels, sn, url),
                        err |-> IF url = "error" THEN AppendError(error, sn)
                                ELSE error,
                        calls |-> [abandoned.calls EXCEPT ![abandoned.i] = "resolved"],
                        at |-> abandoned.i, done |-> FALSE,
                        progress |-> progress, res |-> NoResult,
                        retries |-> 0, attempts |-> 0, waits |-> <<>>],
                       abandoned.i + 1)
     IN
     /\ comicPanels' = st.panels
     /\ error' = st.err
     /\ IF st.done
        THEN /\ abandoned' = NoAbandoned
             /\ IF Finally(abandoned.cError, abandoned.cPanelsEmpty, Len(sp)) = "timer"
                THEN /\ timers' = timers + 1
                     /\ progress' = st.progress
                     /\ UNCHANGED isLoading
                ELSE /\ isLoading' = FALSE
                     /\ progress' = NoProgress
                     /\ UNCHANGED timers
        ELSE /\ abandoned' = [abandoned EXCEPT !.i = st.at, !.calls = st.calls]
             /\ progress' = st.progress
             /\ UNCHANGED <<isLoading, timers>>
  /\ UNCHANGED <<apiKey, hError, hPanelsEmpty, pc, options, scenePrompts, i,
                 cError, cPanelsEmpty, calls, runEnd, retries, attempts, waits,
                 result, script, parseVars, promptVars, exportVars, scaleVars>>

NextHandler ==
  \/ \E key \in ApiKeys : SetApiKey(key)
  \/ \E opts \in AppOptions : Submit(opts)
  \/ \E resp \in AppResponses : SceneResolved(resp)
  \/ \E o \in AppOutcomes : ImageAttemptDone(o)
  \/ DelayDone
  \/ TimerFire
  \/ Dismiss
  \/ \E opts \in AppOptions : Reinvoke(opts)
  \/ \E url \in CallResults : AbandonedImageDone(url)

SpecHandler == Init /\ [][NextHandler]_vars

====
